---- MODULE Spec2Model ----
(***************************************************************************)
(* Model of the unpublished-course audit of coraxwolf/CCTA_3-4.            *)
(*                                                                         *)
(* The repository holds two revisions of the API manager (package canvas)  *)
(* and two revisions of the audit program (package main).  The variables   *)
(* apiImpl and appImpl say which revision a behaviour runs; they are       *)
(* chosen in the initial state and never change.                           *)
(*                                                                         *)
(* Text is modelled as sequences of tokens (a token is a TLA+ string), so  *)
(* that concatenation, prefix cutting, splitting, trimming and joining     *)
(* are computed and not assumed.  Durations are counted in ticks of one    *)
(* eighth of a second (700 s / 8 = 87.5 s is a whole number of ticks).     *)
(* float64 values are modelled by exact rationals <<num, den>>.            *)
(***************************************************************************)
EXTENDS Integers, Sequences, FiniteSets, TLC

VARIABLES
    readTimeout, \* the readTimeout handed to NewAPI, in seconds
    apiImpl,     \* which revision of package canvas runs
    appImpl,     \* which revision of package main runs
    api,         \* the APIManager's fields
    lastGet,     \* what the last call of Get computed and returned
    requests,    \* the URLs requested so far, in order
    world,       \* the course listing as the service pages it
    pc,          \* where main stands
    ep,          \* getCourses: the endpoint of the next page
    courses,     \* getCourses: the courses gathered / returned
    listing,     \* getCourses: "pending", or how it returned: "ok", "error"
    courseList,  \* main: the courses of the term
    idx,         \* main: index in courseList of the course being audited
    result,      \* main: the row being assembled
    results,     \* main: the rows assembled
    probes,      \* per assembled row, what the service answered to its probes
    report       \* the records written to the CSV file

vars == <<readTimeout, apiImpl, appImpl, api, lastGet, requests, world, pc, ep, courses,
          listing, courseList, idx, result, results, probes, report>>

-----------------------------------------------------------------------------
(* Bounds of the model *)

MaxGets == 3
MaxPages == 3
MaxCourses == 3
MaxReadTimeout == 64

-----------------------------------------------------------------------------
(* Program constants *)

RateLimitMax == 700
ReadTimeout == 120
TicksPerSecond == 8
StatusOK == 200
StatusTooManyRequests == 429
FailStatuses == {StatusTooManyRequests}

ApiImpls == {"part_001", "pkg_canvas"}
AppImpls == {"cmd_app", "part_002"}

-----------------------------------------------------------------------------
(* Text helpers: Go's strings package over token sequences *)

HasPrefix(s, prefix) ==
    /\ Len(s) >= Len(prefix)
    /\ SubSeq(s, 1, Len(prefix)) = prefix

CutPrefix(s, prefix) ==
    IF HasPrefix(s, prefix) THEN SubSeq(s, Len(prefix) + 1, Len(s)) ELSE s

Contains(s, tok) == \E i \in 1..Len(s) : s[i] = tok

RECURSIVE Split(_, _)
Split(s, sep) ==
    IF ~Contains(s, sep) THEN <<s>>
    ELSE LET i == CHOOSE j \in 1..Len(s) :
                      /\ s[j] = sep
                      /\ \A k \in 1..(j - 1) : s[k] # sep
         IN <<SubSeq(s, 1, i - 1)>> \o Split(SubSeq(s, i + 1, Len(s)), sep)

RECURSIVE TrimLeft(_, _)
TrimLeft(s, cutset) ==
    IF s # <<>> /\ Head(s) \in cutset THEN TrimLeft(Tail(s), cutset) ELSE s

RECURSIVE TrimRight(_, _)
TrimRight(s, cutset) ==
    IF s # <<>> /\ s[Len(s)] \in cutset
    THEN TrimRight(SubSeq(s, 1, Len(s) - 1), cutset) ELSE s

Trim(s, cutset) == TrimRight(TrimLeft(s, cutset), cutset)

RECURSIVE Join(_, _)
Join(elems, sep) ==
    IF elems = <<>> THEN <<>>
    ELSE IF Len(elems) = 1 THEN elems[1]
    ELSE elems[1] \o sep \o Join(Tail(elems), sep)

-----------------------------------------------------------------------------
(* Rationals standing for float64 values *)

Abs(n) == IF n < 0 THEN -n ELSE n

RECURSIVE GCD(_, _)
GCD(a, b) == IF b = 0 THEN a ELSE GCD(b, a % b)

Rat(n, d) ==
    LET g == GCD(Abs(n), Abs(d))
        s == IF d < 0 THEN -1 ELSE 1
    IN IF n = 0 THEN <<0, 1>> ELSE <<(s * n) \div g, (s * d) \div g>>

RatInt(n) == <<n, 1>>
RatSub(x, y) == Rat(x[1] * y[2] - y[1] * x[2], x[2] * y[2])
RatAdd(x, y) == Rat(x[1] * y[2] + y[1] * x[2], x[2] * y[2])
RatDivInt(x, n) == Rat(x[1], x[2] * n)
RatMul(x, y) == Rat(x[1] * y[1], x[2] * y[2])
RatGT(x, y) == x[1] * y[2] > y[1] * x[2]
RatLE(x, y) == ~RatGT(x, y)
RatLT(x, y) == RatGT(y, x)

-----------------------------------------------------------------------------
(* package canvas: the API manager *)

(* A header value as the server sent it: absent (Header.Get gives ""), *)
(* text that is no number, or the decimal text of a number.            *)
Absent == [kind |-> "absent", val |-> 0]
Garbage == [kind |-> "garbage", val |-> 0]
Num(n) == [kind |-> "number", val |-> n]

(* strconv.ParseFloat: the value and whether an error is returned; the *)
(* value is 0 when the text is no number.                              *)
ParseFloat(h) ==
    IF h.kind = "number" THEN [val |-> RatInt(h.val), err |-> FALSE]
    ELSE [val |-> RatInt(0), err |-> TRUE]

(* var api *canvas.APIManager before main has built it *)
NoAPI ==
    [maxRateLimit |-> 0,
     rateLimitRemaining |-> RatInt(0),
     averageRateCost |-> RatInt(0),
     requestSendCount |-> 0,
     responseReceivedCount |-> 0,
     timeout |-> 0]

(* timeout is client.Timeout in seconds *)
NewAPI(rateLimitMax, timeoutArg) ==
    [maxRateLimit |-> rateLimitMax,
     rateLimitRemaining |-> RatInt(rateLimitMax),
     averageRateCost |-> RatInt(0),
     requestSendCount |-> 0,
     responseReceivedCount |-> 0,
     timeout |-> IF timeoutArg <= 30 THEN 60 ELSE timeoutArg]

NoGet ==
    [url |-> <<>>, completed |-> FALSE, err |-> FALSE, status |-> 0,
     delay |-> 0, slept |-> 0,
     previousCost |-> RatInt(0), limit |-> RatInt(0), cost |-> RatInt(0),
     spike |-> FALSE, limitErr |-> FALSE, costErr |-> FALSE]

(* limit as Get uses it: part_001 replaces an unparseable header by    *)
(* float64(maxRateLimit / 2); pkg/canvas drops the error and keeps 0.  *)
LimitOf(impl, a, resp) ==
    LET p == ParseFloat(resp.remaining)
    IN IF p.err /\ impl = "part_001"
       THEN RatInt(a.maxRateLimit \div 2)
       ELSE p.val

(* cost as Get uses it: part_001 replaces an unparseable header by the *)
(* current average; pkg/canvas drops the error and keeps 0.            *)
CostOf(impl, a, resp) ==
    LET p == ParseFloat(resp.cost)
    IN IF p.err /\ impl = "part_001" THEN a.averageRateCost ELSE p.val

(* Faulty variant of Remaining: the header's value is recorded as is. *)
RemainingUncapped(a, limit) == limit

Remaining(a, limit) ==
    IF RatLT(limit, RatInt(a.maxRateLimit)) THEN limit
    ELSE RatInt(a.maxRateLimit)

(* Faulty variant of AverageCost: the average is updated whatever the *)
(* cost.                                                              *)
AverageCostUnguarded(a, cost) ==
    RatAdd(a.averageRateCost,
           RatDivInt(RatSub(cost, a.averageRateCost), a.requestSendCount))

(* avg + (cost - avg) / requestSendCount, only when cost > 0 *)
AverageCost(a, cost) ==
    IF RatGT(cost, RatInt(0))
    THEN RatAdd(a.averageRateCost,
                RatDivInt(RatSub(cost, a.averageRateCost), a.requestSendCount))
    ELSE a.averageRateCost

(* Faulty variant of LadderDelay: a quota exactly on a boundary falls *)
(* into the tier above it.                                           *)
LadderDelayExclusive(a) ==
    IF RatLT(a.rateLimitRemaining, Rat(a.maxRateLimit, 4))
    THEN (a.maxRateLimit * TicksPerSecond) \div 2
    ELSE IF RatLT(a.rateLimitRemaining, Rat(a.maxRateLimit, 2))
    THEN (a.maxRateLimit * TicksPerSecond) \div 4
    ELSE IF RatLT(a.rateLimitRemaining, Rat(3 * a.maxRateLimit, 4))
    THEN (a.maxRateLimit * TicksPerSecond) \div 8
    ELSE 0

(* The ladder on the recorded remaining quota, in ticks. *)
LadderDelay(a) ==
    IF RatLE(a.rateLimitRemaining, Rat(a.maxRateLimit, 4))
    THEN (a.maxRateLimit * TicksPerSecond) \div 2
    ELSE IF RatLE(a.rateLimitRemaining, Rat(a.maxRateLimit, 2))
    THEN (a.maxRateLimit * TicksPerSecond) \div 4
    ELSE IF RatLE(a.rateLimitRemaining, Rat(3 * a.maxRateLimit, 4))
    THEN (a.maxRateLimit * TicksPerSecond) \div 8
    ELSE 0

FiveMinutes == 5 * 60 * TicksPerSecond
ThirtySeconds == 30 * TicksPerSecond

(* Faulty variant of CostSpike: a cost of exactly 120% counts too. *)
CostSpikeInclusive(previousCost, cost) ==
    /\ RatGT(previousCost, RatInt(0))
    /\ ~RatGT(RatMul(previousCost, Rat(6, 5)), cost)

(* previousCost > 0 && cost > previousCost*1.2 *)
CostSpike(previousCost, cost) ==
    /\ RatGT(previousCost, RatInt(0))
    /\ RatGT(cost, RatMul(previousCost, Rat(6, 5)))

(* The delay after the ladder, the 429 override and the cost check. *)
BaseDelay(a, status, previousCost, cost) ==
    LET ladder == LadderDelay(a)
        limited == IF status = StatusTooManyRequests THEN FiveMinutes ELSE ladder
    IN IF CostSpike(previousCost, cost) THEN ThirtySeconds ELSE limited

(* rand.Int63n(int64(delay)/4) milliseconds, in ticks: any value below *)
(* delay_ns/4 ms = delay_ticks * 250000 ticks.  Two values stand for   *)
(* the range: the smallest and the largest.                            *)
JitterChoices(impl, delay) ==
    IF impl = "part_001" THEN {0, delay * 250000 - 1} ELSE {0}

(* Faulty variant of Slept: only the jitter is slept. *)
SleptJitterOnly(delay, jitter) == jitter

(* if delay > 0 { time.Sleep(delay + jitter) } *)
Slept(delay, jitter) == IF delay > 0 THEN delay + jitter ELSE 0

(* Faulty variant of DoFailed: an error status is taken for a failure. *)
DoFailedOrErrorStatus(resp) == resp.transport \/ resp.status >= 400

(* resp, err := api.client.Do(req); err != nil *)
DoFailed(resp) == resp.transport

(* Get: the set of outcomes {api, out} of one call answered by resp;  *)
(* out.completed tells whether the service answered at all.           *)
Get(impl, a, endpoint, baseURL, resp) ==
    LET sent == [a EXCEPT !.requestSendCount = @ + 1]
        previousCost == a.averageRateCost
        url == baseURL \o endpoint
    IN IF DoFailed(resp)
       THEN {[api |-> sent,
              out |-> [NoGet EXCEPT !.url = url, !.err = TRUE,
                                    !.completed = ~resp.transport,
                                    !.status = resp.status,
                                    !.previousCost = previousCost]]}
       ELSE LET recv == [sent EXCEPT !.responseReceivedCount = @ + 1]
                limit == LimitOf(impl, recv, resp)
                cost == CostOf(impl, recv, resp)
                a1 == [recv EXCEPT !.rateLimitRemaining = Remaining(recv, limit)]
                a2 == [a1 EXCEPT !.averageRateCost = AverageCost(a1, cost)]
                delay == BaseDelay(a2, resp.status, previousCost, cost)
            IN {[api |-> a2,
                 out |-> [url |-> url, completed |-> ~resp.transport,
                          err |-> FALSE, status |-> resp.status,
                          delay |-> delay,
                          slept |-> Slept(delay, j),
                          previousCost |-> previousCost, limit |-> limit,
                          cost |-> cost,
                          spike |-> CostSpike(previousCost, cost),
                          limitErr |-> ParseFloat(resp.remaining).err,
                          costErr |-> ParseFloat(resp.cost).err]]
                  : j \in IF delay > 0 THEN JitterChoices(impl, delay) ELSE {0}}

-----------------------------------------------------------------------------
(* The remote service: fixtures and the responses it can give *)

(* os.Getenv("BETA_API_URL"), and a second address of the same service *)
BaseURL == <<"https://canvas.test", "/api/v1/">>
ForeignURL == <<"https://lms.test", "/api/v1/">>

TermPrefix == <<"6253", "-">>

Course(id, name, state, view, sis) ==
    [ID |-> id, Name |-> <<name>>, WorkflowState |-> state,
     DefaultViewType |-> view, CourseSISID |-> sis]

Courses ==
    {Course(1, "Writing", "unpublished", "wiki",
            <<"6253", "-", "FA", "-", "ENG", "-", "201">>),
     Course(2, "Algebra", "unpublished", "modules", <<"6253", "-", "X">>),
     Course(3, "Calculus", "available", "wiki",
            <<"6253", "-", "FA", "-", "MATH", "-", "101">>),
     Course(4, "Poetry", "unpublished", "wiki",
            <<"6254", "-", "FA", "-", "ENG", "-", "201">>),
     Course(5, "Biology", "unavailable", "wiki",
            <<"6253", "-", "FA", "-", "BIO", "-", "110">>),
     Course(6, "Chemistry", "unavailable", "modules",
            <<"6253", "-", "FA", "-", "CHEM", "-", "105">>)}

CourseByID(id) == CHOOSE c \in Courses : c.ID = id

Teacher(id, name, email) == [ID |-> id, Name |-> <<name>>, Email |-> email]

Teachers ==
    {Teacher(11, "Ann", <<"ann@canvas.test">>), Teacher(12, "Bob", <<>>)}

(* Sequences over S without repetition, of length at most n *)
RECURSIVE SeqsNoRep(_, _)
SeqsNoRep(S, n) ==
    IF n = 0 THEN {<<>>}
    ELSE LET shorter == SeqsNoRep(S, n - 1)
         IN shorter \cup
            {Append(t[1], t[2]) :
                t \in {u \in shorter \X S :
                          /\ Len(u[1]) = n - 1
                          /\ \A i \in 1..Len(u[1]) : u[1][i] # u[2]}}

(* The course listing as the service pages it.  A world fixes the pages *)
(* (each a list of courses), the address the continuation URLs are      *)
(* written with, and where the next relation stands in the Link header. *)
FirstEndpoint ==
    <<"accounts/1/courses?search_term=">> \o TermPrefix \o <<"&per_page=100">>

HostURL(w) == IF w.host = "foreign" THEN ForeignURL ELSE BaseURL

PageURL(w, k) ==
    IF k = 1 THEN BaseURL \o FirstEndpoint
    ELSE HostURL(w) \o <<"accounts/1/courses?page=", ToString(k)>>

RelNext == "rel=\"next\""
RelCurrent == "rel=\"current\""
RelFirst == "rel=\"first\""

(* One segment of a Link header: <url>; rel="name" *)
LinkSegment(url, rel) == <<"<">> \o url \o <<">", ";", " ", rel>>

LinkStyles == {"next_first", "next_middle", "next_last"}
LastStyles == {"absent", "no_next"}

(* The Link header of page k: empty when the service sends none. *)
LinkHeader(w, k) ==
    LET cur == LinkSegment(PageURL(w, k), RelCurrent)
        fst == LinkSegment(PageURL(w, 1), RelFirst)
        nxt == LinkSegment(PageURL(w, k + 1), RelNext)
        segs == IF k < Len(w.pages)
                THEN CASE w.style = "next_first" -> <<nxt, cur>>
                       [] w.style = "next_middle" -> <<cur, nxt, fst>>
                       [] OTHER -> <<cur, nxt>>
                ELSE IF w.last = "absent" THEN <<>> ELSE <<cur, fst>>
    IN Join(segs, <<",">>)

(* The page a URL names, 0 when it names none. *)
PageOf(w, url) ==
    IF \E k \in 1..Len(w.pages) : PageURL(w, k) = url
    THEN CHOOSE k \in 1..Len(w.pages) : PageURL(w, k) = url
    ELSE 0

(* Rate headers the service sends while the audit runs. *)
AppRateHeaders == {[remaining |-> Num(RateLimitMax), cost |-> Absent]}

Failure(kind, status, h) ==
    [transport |-> (kind = "transport"), status |-> status,
     remaining |-> h.remaining, cost |-> h.cost,
     link |-> <<>>, valid |-> FALSE, items |-> <<>>, rest |-> <<>>,
     content |-> <<>>]

Success(h, link, items, rest, content) ==
    [transport |-> FALSE, status |-> StatusOK,
     remaining |-> h.remaining, cost |-> h.cost,
     link |-> link, valid |-> TRUE, items |-> items, rest |-> rest,
     content |-> content]

(* Answers that are no decodable 200: no answer at all, an error status, *)
(* or a 200 whose body is no JSON of the expected shape.                 *)
Failures(hs) ==
    {Failure("transport", 0, h) : h \in hs}
    \cup {Failure("status", st, h) : st \in FailStatuses, h \in hs}
    \cup {[Failure("decode", StatusOK, h) EXCEPT !.valid = FALSE] : h \in hs}

(* Answers to a GET of a listing URL. *)
ListingResponses(w, url, hs) ==
    LET k == PageOf(w, url)
    IN IF k = 0
       THEN {Failure("transport", 0, h) : h \in hs}
            \cup {Failure("status", 404, h) : h \in hs}
       ELSE Failures(hs) \cup
            {Success(h, LinkHeader(w, k), w.pages[k], <<>>, <<>>) : h \in hs}

TeacherLists == SeqsNoRep(Teachers, Cardinality(Teachers))

(* Answers to a GET of a course's modules or assignments. *)
ItemResponses(hs) ==
    Failures(hs) \cup
    {Success(h, <<>>, items, <<>>, <<>>) :
        h \in hs, items \in {<<>>, <<"item">>}}

(* Answers to a GET of a course's front page: the "body" member is *)
(* text, empty text, or missing (content is then empty as well).   *)
FrontPageResponses(hs) ==
    Failures(hs) \cup
    {Success(h, <<>>, <<>>, <<>>, content) :
        h \in hs, content \in {<<>>, <<"<p>Welcome</p>">>}}

(* The teachers of a course as the service pages them: the first page *)
(* and what it keeps on the pages after it (at most one more teacher). *)
TeacherPages ==
    {p \in TeacherLists \X TeacherLists :
        /\ Len(p[2]) <= 1
        /\ (p[2] # <<>> => p[1] # <<>>)
        /\ \A i \in 1..Len(p[2]), j \in 1..Len(p[1]) : p[2][i] # p[1][j]}

(* Answers to a GET of a course's teachers: the first page, with a next *)
(* relation in the Link header when more pages follow.                  *)
TeacherResponses(hs, courseID) ==
    Failures(hs) \cup
    {Success(h,
             IF p[2] = <<>> THEN <<>>
             ELSE LinkSegment(BaseURL \o <<"courses/", ToString(courseID),
                                          "/users?page=2">>, RelNext),
             p[1], p[2], <<>>) :
        h \in hs, p \in TeacherPages}

-----------------------------------------------------------------------------
(* package main: the audit program *)

(* What one fetch-and-decode helper returns to main. *)
Returned(resp) ==
    [err |-> resp.transport \/ resp.status # StatusOK \/ ~resp.valid]

getCourseModules(resp) ==
    LET r == Returned(resp)
    IN [err |-> r.err, val |-> ~r.err /\ Len(resp.items) > 0]

getCourseAssignments(resp) ==
    LET r == Returned(resp)
    IN [err |-> r.err, val |-> ~r.err /\ Len(resp.items) > 0]

getCourseFrontPage(resp) ==
    LET r == Returned(resp)
    IN [err |-> r.err, val |-> ~r.err /\ resp.content # <<>>]

getCourseTeachers(resp) ==
    LET r == Returned(resp)
    IN [err |-> r.err, val |-> IF r.err THEN <<>> ELSE resp.items]

(* main's handling of a presence probe: the error branch writes "Error", *)
(* then the if/else on the returned flag writes "Yes" or "No".           *)
Presence(ret) ==
    LET afterErr == IF ret.err THEN "Error" ELSE ""
        afterFlag == IF ret.val THEN "Yes" ELSE "No"
    IN afterFlag

(* Faulty variant of FacultyFields: a teacher without email gets no *)
(* entry in the email list.                                        *)
FacultyFieldsSkippingNoEmail(ret) ==
    LET HasEmail(t) == t.Email # <<>>
        withMail == SelectSeq(ret.val, HasEmail)
    IN IF ret.err
       THEN [FacultyName |-> <<"Error">>, FacultyEmail |-> <<"Error">>]
       ELSE IF Len(ret.val) > 0
       THEN [FacultyName |->
                 Join([i \in 1..Len(ret.val) |-> ret.val[i].Name], <<", ">>),
             FacultyEmail |->
                 Join([i \in 1..Len(withMail) |-> withMail[i].Email],
                      <<", ">>)]
       ELSE [FacultyName |-> <<"No Faculty">>, FacultyEmail |-> <<"No Email">>]

(* main's faculty fields from what getCourseTeachers returned. *)
FacultyFields(ret) ==
    IF ret.err
    THEN [FacultyName |-> <<"Error">>, FacultyEmail |-> <<"Error">>]
    ELSE IF Len(ret.val) > 0
    THEN [FacultyName |->
              Join([i \in 1..Len(ret.val) |-> ret.val[i].Name], <<", ">>),
          FacultyEmail |->
              Join([i \in 1..Len(ret.val) |->
                        IF ret.val[i].Email # <<>> THEN ret.val[i].Email
                        ELSE <<"No Email">>], <<", ">>)]
    ELSE [FacultyName |-> <<"No Faculty">>, FacultyEmail |-> <<"No Email">>]

(* The workflow state main looks for. *)
TargetState(impl) == IF impl = "cmd_app" THEN "unpublished" ELSE "unavailable"

InTerm(course) == HasPrefix(course.CourseSISID, TermPrefix)

RECURSIVE FilterTerm(_)
FilterTerm(cs) ==
    IF cs = <<>> THEN <<>>
    ELSE IF InTerm(Head(cs)) THEN <<Head(cs)>> \o FilterTerm(Tail(cs))
    ELSE FilterTerm(Tail(cs))

(* Faulty variant of Subject: the field is taken one place too early. *)
SubjectOneFieldEarly(course) ==
    LET parts == Split(course.CourseSISID, "-")
    IN IF Len(parts) = 4 THEN parts[2] ELSE <<"Unknown">>

Subject(course) ==
    LET parts == Split(course.CourseSISID, "-")
    IN IF Len(parts) = 4 THEN parts[3] ELSE <<"Unknown">>

NoRow ==
    [CourseID |-> 0, CourseName |-> <<>>, Subject |-> <<>>,
     WithModules |-> "", WithAssignments |-> "", WithFrontPage |-> "",
     FacultyName |-> <<>>, FacultyEmail |-> <<>>]

NewRow(course) ==
    [NoRow EXCEPT !.CourseID = course.ID, !.CourseName = course.Name,
                  !.Subject = Subject(course)]

(* The next index at or after i of a course in the target state, 0 if none. *)
RECURSIVE NextTarget(_, _, _)
NextTarget(impl, cl, i) ==
    IF i > Len(cl) THEN 0
    ELSE IF cl[i].WorkflowState = TargetState(impl) THEN i
    ELSE NextTarget(impl, cl, i + 1)

(* getCourses, cmd/app: the endpoint of the first part of the Link header *)
(* that contains rel="next", the base URL cut off; "" when there is none. *)
RECURSIVE ScanLinkApp(_)
ScanLinkApp(parts) ==
    IF parts = <<>> THEN <<>>
    ELSE IF Contains(Head(parts), RelNext)
    THEN CutPrefix(Trim(Split(Head(parts), ";")[1], {" ", "<", ">"}), BaseURL)
    ELSE ScanLinkApp(Tail(parts))

(* getCourses, part_002: every part is visited; a part with rel="next" *)
(* sets ep and next, any other part clears next.                       *)
RECURSIVE ScanLinkOld(_, _)
ScanLinkOld(parts, st) ==
    IF parts = <<>> THEN st
    ELSE IF Contains(Head(parts), RelNext)
    THEN ScanLinkOld(Tail(parts),
                     [ep |-> Trim(Split(Head(parts), ";")[1], {" ", "<", ">"}),
                      next |-> TRUE])
    ELSE ScanLinkOld(Tail(parts), [st EXCEPT !.next = FALSE])

(* The endpoint and the loop flag after the Link header was looked at. *)
NextLink(impl, oldEp, headers) ==
    IF impl = "cmd_app"
    THEN IF headers = <<>> THEN [ep |-> <<>>, next |-> FALSE]
         ELSE LET e == ScanLinkApp(Split(headers, ","))
              IN [ep |-> e, next |-> e # <<>>]
    ELSE IF headers = <<>> THEN [ep |-> oldEp, next |-> FALSE]
         ELSE ScanLinkOld(Split(headers, ","), [ep |-> oldEp, next |-> TRUE])

(* What the service answered to a probe, as the ghost record keeps it. *)
Answer(resp) ==
    IF resp.transport \/ resp.status # StatusOK \/ ~resp.valid THEN "failed"
    ELSE IF resp.items # <<>> \/ resp.content # <<>> THEN "present"
    ELSE "empty"

NoProbes(course) ==
    [course |-> course, modules |-> "none", front_page |-> "none",
     assignments |-> "none", teachers |-> "none",
     first |-> <<>>, rest |-> <<>>]

Noted(field, value) ==
    [probes EXCEPT ![Len(probes)] = [@ EXCEPT ![field] = value]]

(* main's loop over courseList from index i on: the next course in the *)
(* target state gets a fresh row and its modules probe comes next; if  *)
(* there is none the loop is over and the report is written.           *)
Enter(cl, i, pr) ==
    LET j == NextTarget(appImpl, cl, i)
    IN IF j = 0
       THEN /\ pc' = "write"
            /\ idx' = Len(cl) + 1
            /\ result' = NoRow
            /\ probes' = pr
       ELSE /\ pc' = "modules"
            /\ idx' = j
            /\ result' = NewRow(cl[j])
            /\ probes' = Append(pr, NoProbes(cl[j]))

(* The cost a completed response reports: the number in its          *)
(* Request-Cost header when there is one above zero, else 0 (nothing *)
(* was observed).                                                    *)
ObservedCost(resp) ==
    IF ~resp.transport /\ resp.cost.kind = "number" /\ resp.cost.val > 0
    THEN resp.cost.val
    ELSE 0

(* One call of Get by function `by`: the rate state, the call's outcome, *)
(* and the log of what was requested and how the service answered.      *)
Call(by, endpoint, resp) ==
    \E g \in Get(apiImpl, api, endpoint, BaseURL, resp) :
        /\ api' = g.api
        /\ lastGet' = g.out
        /\ requests' = Append(requests, [url |-> g.out.url, by |-> by,
                                         answer |-> Answer(resp),
                                         cost |-> ObservedCost(resp)])

(* Faulty variant of AfterModules: the front page is probed whatever *)
(* the default view.                                                *)
AfterModulesUngated(course) == "front_page"

(* Where main goes after the modules probe. *)
AfterModules(course) ==
    IF course.DefaultViewType = "wiki" THEN "front_page" ELSE "assignments"

(* Faulty variant of Appended: the row is dropped when the teachers *)
(* lookup failed.                                                   *)
AppendedUnlessFailed(rows, row, ret) ==
    IF ret.err THEN rows ELSE Append(rows, row)

(* Faulty variant of Appended: the row is put in front of the others. *)
AppendedInFront(rows, row, ret) == <<row>> \o rows

(* results = append(results, result) *)
Appended(rows, row, ret) == Append(rows, row)

(* Faulty variant of ListingFailed: an undecodable page is taken for *)
(* an empty last page.                                               *)
ListingFailedIgnoringDecode(resp) ==
    resp.transport \/ resp.status # StatusOK

(* Whether getCourses returns an error for this answer. *)
ListingFailed(resp) == Returned(resp).err

(* Faulty variant of AfterListingError: main goes on to the report. *)
AfterListingErrorGoesOn == "write"

(* main after getCourses returned an error: it prints it and returns. *)
AfterListingError == "aborted"

(* One iteration of the loop of getCourses; the last one also returns *)
(* to main, which filters the term's courses and enters its loop.     *)
ListPage ==
    /\ pc = "getCourses"
    /\ \E resp \in ListingResponses(world, BaseURL \o ep, AppRateHeaders) :
        /\ Call("getCourses", ep, resp)
        /\ IF ListingFailed(resp)
           THEN /\ pc' = AfterListingError
                /\ listing' = "error"
                /\ courses' = <<>>
                /\ UNCHANGED <<ep, courseList, idx, result, probes>>
           ELSE LET all == courses \o resp.items
                    nl == NextLink(appImpl, ep, resp.link)
                IN /\ courses' = all
                   /\ ep' = nl.ep
                   /\ IF nl.next
                      THEN UNCHANGED <<pc, listing, courseList, idx, result,
                                       probes>>
                      ELSE /\ listing' = "ok"
                           /\ courseList' = FilterTerm(all)
                           /\ Enter(FilterTerm(all), 1, probes)
    /\ UNCHANGED <<readTimeout, apiImpl, appImpl, world, results, report>>

CourseEndpoint(course, tail) == <<"courses/", ToString(course.ID), tail>>

ProbeModules ==
    /\ pc = "modules"
    /\ \E resp \in ItemResponses(AppRateHeaders) :
        /\ Call("getCourseModules",
                CourseEndpoint(courseList[idx], "/modules"), resp)
        /\ result' = [result EXCEPT
                         !.WithModules = Presence(getCourseModules(resp))]
        /\ probes' = Noted("modules", Answer(resp))
    /\ pc' = AfterModules(courseList[idx])
    /\ UNCHANGED <<readTimeout, apiImpl, appImpl, world, ep, courses, listing, courseList,
                   idx, results, report>>

ProbeFrontPage ==
    /\ pc = "front_page"
    /\ \E resp \in FrontPageResponses(AppRateHeaders) :
        /\ Call("getCourseFrontPage",
                CourseEndpoint(courseList[idx], "/front_page"), resp)
        /\ result' = [result EXCEPT
                         !.WithFrontPage = Presence(getCourseFrontPage(resp))]
        /\ probes' = Noted("front_page", Answer(resp))
    /\ pc' = "assignments"
    /\ UNCHANGED <<readTimeout, apiImpl, appImpl, world, ep, courses, listing, courseList,
                   idx, results, report>>

ProbeAssignments ==
    /\ pc = "assignments"
    /\ \E resp \in ItemResponses(AppRateHeaders) :
        /\ Call("getCourseAssignments",
                CourseEndpoint(courseList[idx], "/assignments?per_page=100"),
                resp)
        /\ result' = [result EXCEPT
                         !.WithAssignments =
                             Presence(getCourseAssignments(resp))]
        /\ probes' = Noted("assignments", Answer(resp))
    /\ pc' = "teachers"
    /\ UNCHANGED <<readTimeout, apiImpl, appImpl, world, ep, courses, listing, courseList,
                   idx, results, report>>

TeachersEndpoint(impl, course) ==
    CourseEndpoint(course, IF impl = "cmd_app" THEN "/users?enrollment_type=teacher"
                           ELSE "/teachers?per_page=100")

(* The teachers probe completes the row, appends it, and main's loop *)
(* moves on to the next course.                                      *)
ProbeTeachers ==
    /\ pc = "teachers"
    /\ \E resp \in TeacherResponses(AppRateHeaders, courseList[idx].ID) :
        /\ Call("getCourseTeachers",
                TeachersEndpoint(appImpl, courseList[idx]), resp)
        /\ LET ret == getCourseTeachers(resp)
               fac == FacultyFields(ret)
               row == [result EXCEPT !.FacultyName = fac.FacultyName,
                                     !.FacultyEmail = fac.FacultyEmail]
               noted == [Noted("teachers", Answer(resp)) EXCEPT
                            ![Len(probes)].first = resp.items,
                            ![Len(probes)].rest = resp.rest]
           IN /\ results' = Appended(results, row, ret)
              /\ Enter(courseList, idx + 1, noted)
    /\ UNCHANGED <<readTimeout, apiImpl, appImpl, world, ep, courses, listing, courseList,
                   report>>

Header ==
    <<<<"course_id">>, <<"course_name">>, <<"subject">>, <<"with_modules">>,
      <<"with_assignments">>, <<"with_front_page">>, <<"faculty_name">>,
      <<"faculty_email">>>>

(* fmt.Sprintf("%s,", s) *)
WithComma(s) == IF s = "" THEN <<",">> ELSE <<s, ",">>

(* The record main builds for one row (cmd/app only). *)
Record(row) ==
    <<<<ToString(row.CourseID), ",">>,
      row.CourseName \o <<",">>,
      row.Subject \o <<",">>,
      WithComma(row.WithModules),
      WithComma(row.WithAssignments),
      WithComma(row.WithFrontPage),
      row.FacultyName \o <<",">> \o row.FacultyEmail>>

(* What main writes when the directory and the file can be opened: the *)
(* header, then cmd/app writes one record per row; part_002 stops      *)
(* after the header.                                                   *)
Written(impl, rows) ==
    IF impl = "cmd_app"
    THEN <<Header>> \o [i \in 1..Len(rows) |-> Record(rows[i])]
    ELSE <<Header>>

WriteReport ==
    /\ pc = "write"
    /\ \E fileOK \in BOOLEAN :
        report' = IF fileOK THEN Written(appImpl, results) ELSE <<>>
    /\ pc' = "done"
    /\ UNCHANGED <<readTimeout, apiImpl, appImpl, api, lastGet, requests, world, ep,
                   courses, listing, courseList, idx, result, results, probes>>

-----------------------------------------------------------------------------
(* The worlds the audit is run against *)

World(pages, host, style, last) ==
    [pages |-> pages, host |-> host, style |-> style, last |-> last]

(* The account's catalogue in the order the service lists it. *)
Catalogue ==
    <<CourseByID(2), CourseByID(6), CourseByID(1), CourseByID(3),
      CourseByID(4), CourseByID(5)>>

(* A search returns a run of at most MaxCourses consecutive courses of *)
(* the catalogue, all on one page.                                     *)
AuditWorlds ==
    {World(<<SubSeq(Catalogue, r[1], r[1] + r[2] - 1)>>,
           "base", "next_last", "absent") :
        r \in {q \in (1..Len(Catalogue)) \X (0..MaxCourses) :
                  q[1] + q[2] - 1 <= Len(Catalogue)}}

PagingItems(k) ==
    IF k % 3 = 1 THEN <<CourseByID(4)>>
    ELSE IF k % 3 = 2 THEN <<CourseByID(3), CourseByID(5)>>
    ELSE <<>>

(* Chains of at most MaxPages pages, the continuation URLs written with *)
(* either address and the next relation at any place in the header.     *)
PagingWorlds ==
    {World([k \in 1..n |-> PagingItems(k)], host, style, last) :
        n \in 1..MaxPages, host \in {"base", "foreign"},
        style \in LinkStyles, last \in LastStyles}

Worlds == AuditWorlds \cup PagingWorlds

-----------------------------------------------------------------------------
(* The audit program *)

Init ==
    /\ apiImpl \in ApiImpls
    /\ appImpl \in AppImpls
    /\ readTimeout = ReadTimeout
    /\ api = NewAPI(RateLimitMax, readTimeout)
    /\ lastGet = NoGet
    /\ requests = <<>>
    /\ world \in Worlds
    /\ pc = "getCourses"
    /\ ep = FirstEndpoint
    /\ courses = <<>>
    /\ listing = "pending"
    /\ courseList = <<>>
    /\ idx = 0
    /\ result = NoRow
    /\ results = <<>>
    /\ probes = <<>>
    /\ report = <<>>

Next ==
    \/ ListPage
    \/ ProbeModules
    \/ ProbeFrontPage
    \/ ProbeAssignments
    \/ ProbeTeachers
    \/ WriteReport

Spec == Init /\ [][Next]_vars

-----------------------------------------------------------------------------
(* The API manager on its own: any caller, any answers *)

GetStatuses == {StatusOK, StatusTooManyRequests}
RemainingHeaders == {Garbage, Num(70), Num(420), Num(800)}
CostHeaders == {Absent, Num(-5), Num(0), Num(10), Num(12), Num(13)}

GetResponses ==
    {Failure("transport", 0, [remaining |-> Absent, cost |-> Absent])}
    \cup {[Failure("status", st, [remaining |-> r, cost |-> c])
              EXCEPT !.valid = TRUE] :
            st \in GetStatuses, r \in RemainingHeaders, c \in CostHeaders}
    \cup {[Failure("status", 500, [remaining |-> Num(70), cost |-> Absent])
              EXCEPT !.valid = TRUE]}
    \cup {[Failure("status", StatusOK,
                    [remaining |-> Num(800), cost |-> Num(11)])
              EXCEPT !.valid = TRUE]}

GetCall ==
    /\ pc = "library"
    /\ api.requestSendCount < MaxGets
    /\ \E resp \in GetResponses : Call("caller", <<"courses">>, resp)
    /\ UNCHANGED <<readTimeout, apiImpl, appImpl, world, pc, ep, courses, listing,
                   courseList, idx, result, results, probes, report>>

InitGet ==
    /\ apiImpl \in ApiImpls
    /\ appImpl = "cmd_app"
    /\ readTimeout = ReadTimeout
    /\ api = NewAPI(RateLimitMax, readTimeout)
    /\ lastGet = NoGet
    /\ requests = <<>>
    /\ world = World(<<<<>>>>, "base", "next_last", "absent")
    /\ pc = "library"
    /\ ep = <<>>
    /\ courses = <<>>
    /\ listing = "pending"
    /\ courseList = <<>>
    /\ idx = 0
    /\ result = NoRow
    /\ results = <<>>
    /\ probes = <<>>
    /\ report = <<>>

NextGet == GetCall

SpecGet == InitGet /\ [][NextGet]_vars

-----------------------------------------------------------------------------
(* The constructor on its own: any readTimeout *)

ReadTimeouts == (0 - 2)..MaxReadTimeout

(* api = canvas.NewAPI(logger, token, baseURL, 700, readTimeout) *)
Construct ==
    /\ pc = "new"
    /\ api' = NewAPI(RateLimitMax, readTimeout)
    /\ pc' = "library"
    /\ UNCHANGED <<readTimeout, apiImpl, appImpl, lastGet, requests, world,
                   ep, courses, listing, courseList, idx, result, results,
                   probes, report>>

InitNew ==
    /\ readTimeout \in ReadTimeouts
    /\ apiImpl \in ApiImpls
    /\ appImpl = "cmd_app"
    /\ api = NoAPI
    /\ lastGet = NoGet
    /\ requests = <<>>
    /\ world = World(<<<<>>>>, "base", "next_last", "absent")
    /\ pc = "new"
    /\ ep = <<>>
    /\ courses = <<>>
    /\ listing = "pending"
    /\ courseList = <<>>
    /\ idx = 0
    /\ result = NoRow
    /\ results = <<>>
    /\ probes = <<>>
    /\ report = <<>>

NextNew == Construct

SpecNew == InitNew /\ [][NextNew]_vars

-----------------------------------------------------------------------------
(* Vocabulary of the properties *)

Rows == 1..Len(results)

Expected(answer) ==
    CASE answer = "failed" -> "Error"
      [] answer = "present" -> "Yes"
      [] answer = "empty" -> "No"
      [] OTHER -> ""

IsProbe(r) == r.by \notin {"getCourses", "caller"}
IsListing(r) == r.by = "getCourses"

(* The course a probe request is about, read off the requested URL. *)
ProbedID(r) == r.url[Len(BaseURL) + 2]

ProbeRequests == SelectSeq(requests, IsProbe)
ListingRequests == SelectSeq(requests, IsListing)

(* The functions that requested something about course id, in order. *)
ProbersOf(id) ==
    LET About(r) == IsProbe(r) /\ ProbedID(r) = ToString(id)
        rs == SelectSeq(requests, About)
    IN [k \in 1..Len(rs) |-> rs[k].by]

IDs(cs) == [k \in 1..Len(cs) |-> cs[k].ID]
RowIDs == [k \in 1..Len(results) |-> results[k].CourseID]

IsTarget(c) == c.WorkflowState = TargetState(appImpl)
Qualifies(c) ==
    /\ Len(c.CourseSISID) >= 2
    /\ c.CourseSISID[1] = "6253"
    /\ c.CourseSISID[2] = "-"
    /\ c.WorkflowState = "unpublished"

RECURSIVE Concat(_)
Concat(seqs) == IF seqs = <<>> THEN <<>> ELSE Head(seqs) \o Concat(Tail(seqs))

Finished == pc \in {"write", "done"}

Max(a, b) == IF a >= b THEN a ELSE b

-----------------------------------------------------------------------------
(* C1: every row reports a failed modules, assignments or (attempted)    *)
(* front-page probe as "Error", a successful non-empty one as "Yes" and  *)
(* a successful empty one as "No".                                       *)
C1_FailedProbeIsError ==
    \A i \in Rows :
        /\ results[i].WithModules = Expected(probes[i].modules)
        /\ results[i].WithAssignments = Expected(probes[i].assignments)
        /\ probes[i].front_page # "none" =>
               results[i].WithFrontPage = Expected(probes[i].front_page)

(* C2: a course in the state main looks for gets exactly one row, and   *)
(* all its probes are requested, in order, whatever the earlier probes  *)
(* answered.                                                            *)
C2_ProbeIsolation ==
    /\ \A i \in Rows :
          /\ results[i].CourseID = probes[i].course.ID
          /\ ProbersOf(probes[i].course.ID) =
                IF probes[i].course.DefaultViewType = "wiki"
                THEN <<"getCourseModules", "getCourseFrontPage",
                       "getCourseAssignments", "getCourseTeachers">>
                ELSE <<"getCourseModules", "getCourseAssignments",
                       "getCourseTeachers">>
    /\ Finished => RowIDs = IDs(SelectSeq(courseList, IsTarget))

C2_Witness ==
    /\ pc = "done"
    /\ Len(results) = 2
    /\ probes[1].modules = "failed"
    /\ probes[1].assignments = "failed"
    /\ probes[1].teachers = "failed"
    /\ probes[2].modules = "present"
    /\ probes[2].front_page = "failed"
    /\ probes[2].assignments = "empty"
    /\ probes[2].teachers = "failed"

(* C3: the rows are exactly the listed courses whose sis_course_id      *)
(* starts with "6253-" and whose workflow_state is "unpublished", and   *)
(* no probe is ever requested for any other course.                     *)
C3_Selection ==
    /\ Finished => RowIDs = IDs(SelectSeq(courses, Qualifies))
    /\ \A k \in 1..Len(ProbeRequests) :
          \E c \in Courses :
              /\ ToString(c.ID) = ProbedID(ProbeRequests[k])
              /\ Qualifies(c)

(* C4: on a cost spike the delay is the larger of 30 s and the ladder's *)
(* delay, and with 10% of the quota left it is 350 s whatever the cost. *)
C4_SpikeTakesMaximum ==
    (~lastGet.err /\ lastGet.status # StatusTooManyRequests) =>
        /\ lastGet.spike =>
               lastGet.delay = Max(30 * TicksPerSecond, LadderDelay(api))
        /\ api.rateLimitRemaining = RatInt(70) =>
               lastGet.delay = 350 * TicksPerSecond

(* C5: after a 429 the delay is 5 minutes, whatever the quota and cost. *)
C5_TooManyRequestsFiveMinutes ==
    (~lastGet.err /\ lastGet.status = StatusTooManyRequests) =>
        lastGet.delay = 300 * TicksPerSecond

(* C6: getCourses requests the pages of the chain one after the other,  *)
(* each exactly once, wherever the next relation stands in the header,  *)
(* and when it returns without error it returns the items of all the    *)
(* pages of the chain, in page order.                                   *)
C6_Pagination ==
    /\ Len(ListingRequests) <= Len(world.pages)
    /\ \A k \in 1..Len(ListingRequests) :
          ListingRequests[k].url = PageURL(world, k)
    /\ listing = "ok" =>
          /\ Len(ListingRequests) = Len(world.pages)
          /\ courses = Concat(world.pages)

(* C7: when the answer to any request of getCourses is a transport      *)
(* failure, a status other than 200 or an undecodable body, getCourses  *)
(* returns an error and no courses, and main stops.                     *)
C7_NoPartialListing ==
    (\E k \in 1..Len(ListingRequests) : ListingRequests[k].answer = "failed")
        => /\ listing = "error"
           /\ courses = <<>>
           /\ courseList = <<>>
           /\ pc = "aborted"

C7_Witness ==
    /\ Len(ListingRequests) = 2
    /\ ListingRequests[1].answer = "present"
    /\ ListingRequests[2].answer = "failed"
    /\ ~lastGet.err
    /\ lastGet.status = StatusOK
    /\ pc = "aborted"

(* C8: the request after a page that advertises a next URL goes to      *)
(* exactly that URL, whatever address the URL is written with.          *)
C8_ContinuationURL ==
    \A k \in 1..(Len(ListingRequests) - 1) :
        LET j == PageOf(world, ListingRequests[k].url)
        IN (j > 0 /\ j < Len(world.pages)) =>
               ListingRequests[k + 1].url = PageURL(world, j + 1)

(* C9: the faculty fields of a row are ("Error", "Error") when the      *)
(* teachers probe failed, ("No Faculty", "No Email") when it returned   *)
(* no teacher, and otherwise the names, and the emails or "No Email",   *)
(* of the returned teachers in order, separated by ", "; and every      *)
(* audited course has its row whatever the probe answered.              *)
C9_FacultyFields ==
    /\ Finished => Len(results) = Len(probes)
    /\ \A i \in Rows :
          LET ts == probes[i].first
              names == results[i].FacultyName
              mails == results[i].FacultyEmail
          IN IF probes[i].teachers = "failed"
             THEN names = <<"Error">> /\ mails = <<"Error">>
             ELSE IF ts = <<>>
             THEN names = <<"No Faculty">> /\ mails = <<"No Email">>
             ELSE /\ Len(names) = 2 * Len(ts) - 1
                  /\ Len(mails) = 2 * Len(ts) - 1
                  /\ \A j \in 1..Len(ts) :
                        /\ <<names[2 * j - 1]>> = ts[j].Name
                        /\ <<mails[2 * j - 1]>> =
                              IF ts[j].Email = <<>> THEN <<"No Email">>
                              ELSE ts[j].Email
                  /\ \A j \in 1..(Len(ts) - 1) :
                        names[2 * j] = ", " /\ mails[2 * j] = ", "

C9_Witness ==
    /\ pc = "done"
    /\ Len(results) = 2
    /\ probes[1].teachers = "failed"
    /\ probes[2].teachers = "present"
    /\ Len(probes[2].first) = 2
    /\ probes[2].first[1].Email = <<>>
    /\ results[2].FacultyEmail = <<"No Email", ", ", "ann@canvas.test">>

(* C10: the faculty names of a row cover the teachers of all the pages  *)
(* of the course's teachers collection.                                 *)
C10_AllTeacherPages ==
    \A i \in Rows :
        probes[i].teachers # "failed" =>
            \A t \in {probes[i].first[j] : j \in 1..Len(probes[i].first)}
                  \cup {probes[i].rest[j] : j \in 1..Len(probes[i].rest)} :
                Contains(results[i].FacultyName, t.Name[1])

(* C11: a row's course was asked for its front page exactly when its    *)
(* default view is "wiki"; otherwise no front_page request was made and *)
(* the row's with_front_page is still the unset value.                  *)
C11_FrontPageGate ==
    \A i \in Rows :
        LET c == probes[i].course
            by == ProbersOf(c.ID)
            asked == \E k \in 1..Len(by) : by[k] = "getCourseFrontPage"
        IN /\ asked <=> c.DefaultViewType = "wiki"
           /\ c.DefaultViewType # "wiki" =>
                  /\ results[i].WithFrontPage = ""
                  /\ probes[i].front_page = "none"

C11_Witness ==
    /\ pc = "done"
    /\ Len(results) = 1
    /\ probes[1].course.DefaultViewType = "modules"
    /\ probes[1].modules = "present"
    /\ results[1].WithModules = "Yes"
    /\ results[1].WithFrontPage = ""
    /\ report # <<>>

(* The step is a call of Get, described by lastGet'. *)
IsGetStep == Len(requests') = Len(requests) + 1

(* C12: a Get that ends in a transport failure leaves the remaining     *)
(* quota, the average cost and the request count as they were, and      *)
(* sleeps no time.                                                      *)
C12_TransportFailureLeavesRateState ==
    [][(IsGetStep /\ lastGet'.err) =>
          /\ api'.rateLimitRemaining = api.rateLimitRemaining
          /\ api'.averageRateCost = api.averageRateCost
          /\ api'.requestSendCount = api.requestSendCount
          /\ lastGet'.slept = 0]_vars

RECURSIVE SumCosts(_)
SumCosts(rs) == IF rs = <<>> THEN 0 ELSE Head(rs).cost + SumCosts(Tail(rs))

ObservedRequests ==
    LET Seen(r) == r.cost > 0 IN SelectSeq(requests, Seen)

(* C13: averageRateCost is the arithmetic mean of the costs observed so *)
(* far (0 before the first), so the first observed cost is the average. *)
C13_AverageIsMean ==
    IF ObservedRequests = <<>>
    THEN api.averageRateCost = RatInt(0)
    ELSE api.averageRateCost =
             Rat(SumCosts(ObservedRequests), Len(ObservedRequests))

(* C14: the recorded remaining quota is never above maxRateLimit. *)
C14_RemainingNeverAboveMax ==
    RatLE(api.rateLimitRemaining, RatInt(api.maxRateLimit))

C14_Witness ==
    /\ ~lastGet.err
    /\ lastGet.limit = RatInt(800)
    /\ api.responseReceivedCount = 2
    /\ api.rateLimitRemaining = RatInt(RateLimitMax)

(* C15: after a completed response whose RateLimit-Remaining header is  *)
(* missing or no number, the recorded remaining quota is half of        *)
(* maxRateLimit and the ladder gives the delay of the <=50% tier.       *)
C15_UnparseableRemainingIsHalf ==
    (~lastGet.err /\ lastGet.limitErr) =>
        /\ api.rateLimitRemaining = Rat(api.maxRateLimit, 2)
        /\ LadderDelay(api) = (api.maxRateLimit * TicksPerSecond) \div 4

(* The response of the step's call carried no usable cost. *)
NoCostObserved(out) ==
    ~out.err /\ (out.costErr \/ RatLE(out.cost, RatInt(0)))

(* C16: a completed response whose Request-Cost header is missing, no   *)
(* number or not above zero leaves averageRateCost as it was and raises *)
(* no cost-spike delay.                                                 *)
C16_NoCostKeepsAverage ==
    [][(IsGetStep /\ NoCostObserved(lastGet')) =>
          /\ api'.averageRateCost = api.averageRateCost
          /\ ~lastGet'.spike]_vars

C16_Witness ==
    /\ ~lastGet.err
    /\ lastGet.costErr
    /\ lastGet.previousCost = RatInt(10)
    /\ api.averageRateCost = RatInt(10)
    /\ api.requestSendCount = 2

(* C17: when the computed delay d is above zero Get sleeps at least d   *)
(* and at most 1.25 d; when it is zero Get does not sleep.              *)
C17_JitterBound ==
    ~lastGet.err =>
        IF lastGet.delay = 0 THEN lastGet.slept = 0
        ELSE /\ lastGet.delay <= lastGet.slept
             /\ 4 * lastGet.slept <= 5 * lastGet.delay

(* C20: a call the service answered returns without error whatever the  *)
(* status, after recording that one response in the rate state; a call  *)
(* the service did not answer returns an error.                         *)
C20_CompletedResponseReturned ==
    [][IsGetStep =>
          IF lastGet'.completed
          THEN /\ ~lastGet'.err
               /\ api'.responseReceivedCount = api.responseReceivedCount + 1
               /\ api'.rateLimitRemaining =
                      IF RatLT(lastGet'.limit, RatInt(api.maxRateLimit))
                      THEN lastGet'.limit
                      ELSE RatInt(api.maxRateLimit)
               /\ lastGet'.costErr \/ RatLE(lastGet'.cost, RatInt(0))
                      \/ api'.averageRateCost # api.averageRateCost
                      \/ lastGet'.cost = api.averageRateCost
          ELSE lastGet'.err]_vars

C20_Witness ==
    /\ lastGet.completed
    /\ ~lastGet.err
    /\ lastGet.status = 500
    /\ lastGet.limit = RatInt(70)
    /\ api.rateLimitRemaining = RatInt(70)
    /\ api.responseReceivedCount = 2
    /\ api.requestSendCount = 3

(* C18: when a request of the course listing failed the run is over:    *)
(* no probe is requested for any course and no report is written.       *)
C18_ListingFailureAbortsRun ==
    (\E k \in 1..Len(ListingRequests) : ListingRequests[k].answer = "failed")
        => /\ ProbeRequests = <<>>
           /\ results = <<>>
           /\ report = <<>>
           /\ pc \notin {"modules", "front_page", "assignments", "teachers",
                         "write", "done"}

C18_Witness ==
    /\ pc = "aborted"
    /\ Len(requests) = 3
    /\ lastGet.completed
    /\ lastGet.status = StatusOK
    /\ requests[3].answer = "failed"
    /\ report = <<>>

(* A text field of a row as the tokens of its value. *)
Field(s) == IF s = "" THEN <<>> ELSE <<s>>

(* The eight fields of a row in the header's column order. *)
ExpectedRecord(row) ==
    <<<<ToString(row.CourseID)>>, row.CourseName, row.Subject,
      Field(row.WithModules), Field(row.WithAssignments),
      Field(row.WithFrontPage), row.FacultyName, row.FacultyEmail>>

(* C19: a written report is the header followed by one record per row,  *)
(* each with the row's eight values in the header's column order.       *)
C19_ReportTable ==
    report # <<>> =>
        /\ Len(report) = 1 + Len(results)
        /\ report[1] = Header
        /\ \A i \in 1..Len(results) :
              /\ i + 1 <= Len(report)
              /\ Len(report[i + 1]) = Len(Header)
              /\ report[i + 1] = ExpectedRecord(results[i])

(* The places of the hyphens in an identifier. *)
Hyphens(sis) == {j \in 1..Len(sis) : sis[j] = "-"}

(* The k-th smallest member of a set of numbers. *)
Nth(S, k) == CHOOSE x \in S : Cardinality({y \in S : y < x}) = k - 1

(* The subject an identifier stands for: what lies between its second *)
(* and third hyphen when it has exactly three, otherwise "Unknown".   *)
ExpectedSubject(sis) ==
    IF Cardinality(Hyphens(sis)) = 3
    THEN SubSeq(sis, Nth(Hyphens(sis), 2) + 1, Nth(Hyphens(sis), 3) - 1)
    ELSE <<"Unknown">>

(* C21: a row's subject is the third hyphen-separated field of the     *)
(* course's sis_course_id when it has exactly four fields, "Unknown"   *)
(* otherwise; and a course with a malformed identifier has its row.    *)
C21_SubjectExtraction ==
    /\ \A i \in Rows :
          results[i].Subject = ExpectedSubject(probes[i].course.CourseSISID)
    /\ Finished =>
          \A k \in 1..Len(courseList) :
              IsTarget(courseList[k]) =>
                  \E i \in Rows : results[i].CourseID = courseList[k].ID

C21_Witness ==
    /\ pc = "done"
    /\ Len(results) = 2
    /\ probes[1].course.CourseSISID = <<"6253", "-", "X">>
    /\ results[1].Subject = <<"Unknown">>
    /\ probes[2].course.CourseSISID =
          <<"6253", "-", "FA", "-", "ENG", "-", "201">>
    /\ results[2].Subject = <<"ENG">>

(* C22: the delay is the flat 30 s exactly when there was an average    *)
(* before the response and the response's cost is strictly above 1.2    *)
(* times it (average 10: 13 does, 11 and 12 do not).                    *)
C22_CostSpikeTrigger ==
    [][(IsGetStep /\ lastGet'.completed) =>
          LET before == api.averageRateCost
              cost == lastGet'.cost
              above == 5 * cost[1] * before[2] > 6 * before[1] * cost[2]
          IN /\ lastGet'.delay = 30 * TicksPerSecond
                    <=> (before[1] > 0 /\ above)
             /\ (before = RatInt(10) /\ cost = RatInt(13)) =>
                    lastGet'.delay = 30 * TicksPerSecond
             /\ (before = RatInt(10) /\ cost \in {RatInt(11), RatInt(12)}) =>
                    lastGet'.delay # 30 * TicksPerSecond]_vars

C22_Witness ==
    /\ lastGet.completed
    /\ lastGet.previousCost = RatInt(10)
    /\ lastGet.cost = RatInt(12)
    /\ ~lastGet.costErr
    /\ lastGet.status = StatusOK
    /\ lastGet.delay = 350 * TicksPerSecond

(* C23: for a response that is no 429 and no cost spike the delay is    *)
(* max/2 s for a remaining quota of at most 25% of max, max/4 s up to   *)
(* 50%, max/8 s up to 75% and 0 above (420 of 700 gives 87.5 s).        *)
C23_DelayLadder ==
    (lastGet.completed /\ lastGet.status # StatusTooManyRequests
        /\ ~lastGet.spike) =>
        LET rem == api.rateLimitRemaining
            max == api.maxRateLimit
            AtMost(n, d) == d * rem[1] <= n * max * rem[2]
        IN /\ lastGet.delay =
                 IF AtMost(1, 4) THEN (max * TicksPerSecond) \div 2
                 ELSE IF AtMost(1, 2) THEN (max * TicksPerSecond) \div 4
                 ELSE IF AtMost(3, 4) THEN (max * TicksPerSecond) \div 8
                 ELSE 0
           /\ rem = RatInt(420) => 2 * lastGet.delay = 175 * TicksPerSecond

C23_Witness ==
    /\ lastGet.completed
    /\ lastGet.status = StatusOK
    /\ ~lastGet.spike
    /\ lastGet.limitErr
    /\ api.rateLimitRemaining = RatInt(350)
    /\ lastGet.delay = 175 * TicksPerSecond

(* C24: requests go out one per step of the program, and whenever the   *)
(* next one can be sent the delay computed from the last completed      *)
(* response has been slept in full: nothing of it is pending.           *)
C24_DelaySleptBeforeNextRequest ==
    /\ Len(requests) = api.requestSendCount
    /\ lastGet.completed =>
          /\ lastGet.slept >= lastGet.delay
          /\ lastGet.delay > 0 => lastGet.slept > 0

C24_Witness ==
    /\ Len(requests) >= 3
    /\ requests[Len(requests)].by = "getCourseAssignments"
    /\ lastGet.completed
    /\ lastGet.status = StatusTooManyRequests
    /\ lastGet.delay = 300 * TicksPerSecond
    /\ lastGet.slept > lastGet.delay
    /\ pc = "teachers"

(* C25: the client NewAPI builds never has a timeout below 60 seconds:  *)
(* a smaller readTimeout is raised to 60, and a manager is built        *)
(* whatever the value.                                                  *)
C25_ReadTimeoutFloor ==
    pc # "new" =>
        /\ api.maxRateLimit = RateLimitMax
        /\ api.timeout >= 60
        /\ api.timeout = Max(readTimeout, 60)

(* A course main audits: of the term and in the state main looks for. *)
Audited(c) ==
    /\ Len(c.CourseSISID) >= 2
    /\ c.CourseSISID[1] = "6253"
    /\ c.CourseSISID[2] = "-"
    /\ IsTarget(c)

YesNo(answer) == IF answer = "present" THEN "Yes" ELSE "No"

(* The row of a course as a function of the course and of what the *)
(* service answered to its own probes.                             *)
RowFrom(p) ==
    LET ts == p.first
    IN [CourseID |-> p.course.ID,
        CourseName |-> p.course.Name,
        Subject |-> ExpectedSubject(p.course.CourseSISID),
        WithModules |-> YesNo(p.modules),
        WithAssignments |-> YesNo(p.assignments),
        WithFrontPage |->
            IF p.front_page = "none" THEN "" ELSE YesNo(p.front_page),
        FacultyName |->
            IF p.teachers = "failed" THEN <<"Error">>
            ELSE IF ts = <<>> THEN <<"No Faculty">>
            ELSE Join([j \in 1..Len(ts) |-> ts[j].Name], <<", ">>),
        FacultyEmail |->
            IF p.teachers = "failed" THEN <<"Error">>
            ELSE IF ts = <<>> THEN <<"No Email">>
            ELSE Join([j \in 1..Len(ts) |->
                          IF ts[j].Email = <<>> THEN <<"No Email">>
                          ELSE ts[j].Email], <<", ">>)]

(* C26: the rows follow the order of their courses in the listing, each *)
(* audited course of the listing has exactly one row once main is       *)
(* through, and a row is a function of its own course and of the        *)
(* answers to its own probes.                                           *)
C26_RowOrderAndIndependence ==
    LET sel == SelectSeq(courses, Audited)
    IN /\ Len(results) <= Len(sel)
       /\ \A i \in Rows : results[i].CourseID = sel[i].ID
       /\ Finished => Len(results) = Len(sel)
       /\ \A i \in Rows : results[i] = RowFrom(probes[i])

C26_Witness ==
    /\ pc = "done"
    /\ Len(results) = 2
    /\ results[1].CourseID = 2
    /\ results[2].CourseID = 1
    /\ probes[1].modules = "present"
    /\ probes[1].teachers = "failed"
    /\ probes[2].modules = "empty"
    /\ probes[2].front_page = "present"
    /\ probes[2].teachers = "present"
    /\ results[1].WithModules = "Yes"
    /\ results[2].WithModules = "No"
    /\ results[2].FacultyName # <<"Error">>

====
